---- MODULE Spec2Model ----
(***************************************************************************)
(* SimpleCam (src/SimpleCam.cpp, src/SimpleCam.h): a libcamera capture     *)
(* example.  The application thread runs start(), go(), finish() in that   *)
(* order; the camera manager's thread emits request completions, which     *)
(* invoke the slot requestComplete; the slot defers processRequest to the  *)
(* event loop that go() runs on the application thread.                    *)
(***************************************************************************)
EXTENDS Integers, Sequences, FiniteSets

\* ---------------------------------------------------------------- bounds
\* Most cameras the camera manager may enumerate.
MaxCameras == 1
\* Most frame buffers allocator->allocate() may hand out for the stream.
MaxBuffers == 2
\* Most completions the running camera emits in one run.
MaxCompletions == 3

\* ------------------------------------------------------------- constants
TIMEOUT_SEC == 3

EXIT_SUCCESS == "EXIT_SUCCESS"
EXIT_FAILURE == "EXIT_FAILURE"
NoReturn == "none"

RequestPending == "RequestPending"
RequestComplete == "RequestComplete"
RequestCancelled == "RequestCancelled"

\* Exit statuses loop.exec() may hand back.
ExitCodes == {-1, 0, 1}

\* Request ids double as indices into `requests` and into the buffer vector.
Ids == 1..MaxBuffers
NoRequest == 0

VARIABLES
    pc,            \* position of the application thread
    cameras,       \* cm->cameras().size()
    sizeSupported, \* whether the camera supports the requested stream size
    cmState,       \* camera manager: "None", "Running", "Stopped"
    cameraRef,     \* the shared_ptr `camera` holds a camera
    acquired,      \* the camera is acquired by this process
    config,        \* the CameraConfiguration built in start()
    applied,       \* the configuration last applied to the camera
    allocator,     \* "None", "Live", "Deleted"
    nbuf,          \* buffers(stream).size()
    bufState,      \* per buffer: "None", "Allocated", "Freed"
    nreq,          \* requests.size()
    reqBufs,       \* per request: its buffer map (set of buffer ids)
    status,        \* per request: Request::status()
    slotConnected, \* requestCompleted is connected to requestComplete
    camState,      \* "Idle", "Running", "Stopping", "Stopped"
    pending,       \* per request: times queued to the camera and not yet completed
    completions,   \* completions emitted while running
    cb,            \* request the camera manager's thread is invoking the slot for
    calls,         \* the event loop's deferred calls (each bound to a request)
    timerArmed,    \* loop.timeout() was called
    elapsed,       \* seconds elapsed since the timeout was armed
    exitFlag,      \* the event loop was told to exit
    loopRunning,   \* loop.exec() is dispatching
    processing,    \* request processRequest is running for
    stage,         \* "idle", "buffers", "requeue"
    procCount,     \* per request: processRequest invocations
    written,       \* per request: images written
    requeueCount,  \* per request: queueRequest calls made by processRequest
    procHist,      \* what processRequest did: [req, thread, status, step]
    faults,        \* uses of a freed buffer or of the reset camera pointer
    log,           \* camera API calls made by the application, in order
    printed,       \* failure messages printed
    startRet, goRet, finishRet, loopRet

vars == <<pc, cameras, sizeSupported, cmState, cameraRef, acquired, config,
          applied, allocator, nbuf, bufState, nreq, reqBufs, status,
          slotConnected, camState, pending, completions, cb, calls,
          timerArmed, elapsed, exitFlag, loopRunning, processing, stage,
          procCount, written, requeueCount, procHist, faults, log, printed,
          startRet, goRet, finishRet, loopRet>>

\* Groups used by UNCHANGED.
camVars == <<cmState, cameraRef, acquired, config, applied, allocator, nbuf,
             bufState, nreq, reqBufs, slotConnected>>
loopVars == <<timerArmed, elapsed, exitFlag, loopRunning>>
procVars == <<processing, stage, procCount, written, requeueCount>>
retVars == <<startRet, goRet, finishRet, loopRet>>
envVars == <<cameras, sizeSupported>>

Init ==
    /\ pc = "start"
    /\ cameras \in 0..MaxCameras
    /\ sizeSupported \in BOOLEAN
    /\ cmState = "None"
    /\ cameraRef = FALSE
    /\ acquired = FALSE
    /\ config = "none"
    /\ applied = "none"
    /\ allocator = "None"
    /\ nbuf = 0
    /\ bufState = [b \in Ids |-> "None"]
    /\ nreq = 0
    /\ reqBufs = [r \in Ids |-> {}]
    /\ status = [r \in Ids |-> RequestPending]
    /\ slotConnected = FALSE
    /\ camState = "Idle"
    /\ pending = [r \in Ids |-> 0]
    /\ completions = 0
    /\ cb = NoRequest
    /\ calls = <<>>
    /\ timerArmed = FALSE
    /\ elapsed = 0
    /\ exitFlag = FALSE
    /\ loopRunning = FALSE
    /\ processing = NoRequest
    /\ stage = "idle"
    /\ procCount = [r \in Ids |-> 0]
    /\ written = [r \in Ids |-> 0]
    /\ requeueCount = [r \in Ids |-> 0]
    /\ procHist = {}
    /\ faults = {}
    /\ log = <<>>
    /\ printed = {}
    /\ startRet = NoReturn
    /\ goRet = NoReturn
    /\ finishRet = NoReturn
    /\ loopRet = 0

\* ------------------------------------------------------------ libcamera
\* camera->queueRequest(request): the camera takes the request when it is
\* running and refuses it otherwise; calling through the reset `camera`
\* pointer is a null dereference.
queueRequest(r) ==
    /\ log' = Append(log, "queueRequest")
    /\ pending' = IF cameraRef /\ camState = "Running"
                  THEN [pending EXCEPT ![r] = @ + 1]
                  ELSE pending
    /\ faults' = IF cameraRef THEN faults ELSE faults \cup {"null camera"}

\* config->validate(): adjusts the configuration to a valid one.
validate(c) == IF sizeSupported THEN "validated" ELSE "adjusted"

\* camera->configure(config): "The Camera configuration procedure fails with
\* invalid parameters"; with valid ones it may still fail in the device.
configureAccepts(c) == c \in {"validated", "adjusted"} \/ (c = "modified" /\ sizeSupported)

\* request->reuse(Request::ReuseBuffers): back to pending, buffers kept.
reuse(r) ==
    /\ status' = [status EXCEPT ![r] = RequestPending]
    /\ reqBufs' = reqBufs

\* ------------------------------------------------------------ event loop
\* loop.callLater(std::bind(&processRequest, request))
callLater(r) == calls' = Append(calls, r)

\* ------------------------------------------------------------- start()
StartManager ==
    /\ pc = "start"
    /\ cmState' = "Running"
    /\ log' = Append(log, "cm.start")
    /\ pc' = "s_check"
    /\ UNCHANGED <<envVars, cameraRef, acquired, config, applied, allocator,
                   nbuf, bufState, nreq, reqBufs, status, slotConnected,
                   camState, pending, completions, cb, calls, loopVars,
                   procVars, procHist, faults, printed, retVars>>

\* Variant of StartNoCameras: returns without cm->stop().
StartNoCamerasNoStop ==
    /\ pc = "s_check"
    /\ cameras = 0
    /\ printed' = printed \cup {"No cameras were identified on the system."}
    /\ startRet' = EXIT_FAILURE
    /\ pc' = "start_failed"
    /\ UNCHANGED <<envVars, cmState, cameraRef, acquired, config, applied,
                   allocator, nbuf, bufState, nreq, reqBufs, status,
                   slotConnected, camState, pending, completions, cb, calls,
                   loopVars, procVars, procHist, faults, log, goRet,
                   finishRet, loopRet>>

StartNoCameras ==
    /\ pc = "s_check"
    /\ cameras = 0
    /\ printed' = printed \cup {"No cameras were identified on the system."}
    /\ cmState' = "Stopped"
    /\ log' = Append(log, "cm.stop")
    /\ startRet' = EXIT_FAILURE
    /\ pc' = "start_failed"
    /\ UNCHANGED <<envVars, cameraRef, acquired, config, applied, allocator,
                   nbuf, bufState, nreq, reqBufs, status, slotConnected,
                   camState, pending, completions, cb, calls, loopVars,
                   procVars, procHist, faults, goRet, finishRet, loopRet>>

StartAcquire ==
    /\ pc = "s_check"
    /\ cameras > 0
    /\ cameraRef' = TRUE
    /\ acquired' = TRUE
    /\ log' = Append(log, "acquire")
    /\ pc' = "s_genconf"
    /\ UNCHANGED <<envVars, cmState, config, applied, allocator, nbuf,
                   bufState, nreq, reqBufs, status, slotConnected, camState,
                   pending, completions, cb, calls, loopVars, procVars,
                   procHist, faults, printed, retVars>>

\* generateConfiguration({Viewfinder}), then the stream size is overwritten.
StartGenerateConfiguration ==
    /\ pc = "s_genconf"
    /\ config' = "modified"
    /\ log' = Append(log, "generateConfiguration")
    /\ pc' = "s_configure1"
    /\ UNCHANGED <<envVars, cmState, cameraRef, acquired, applied, allocator,
                   nbuf, bufState, nreq, reqBufs, status, slotConnected,
                   camState, pending, completions, cb, calls, loopVars,
                   procVars, procHist, faults, printed, retVars>>

\* Variant of StartConfigureFirst: the failure is printed but start() goes on.
StartConfigureFirstNoReturn ==
    /\ pc = "s_configure1"
    /\ log' = Append(log, "configure")
    /\ \E ok \in {configureAccepts(config), FALSE} :
        /\ applied' = IF ok THEN config ELSE applied
        /\ printed' = IF ok THEN printed ELSE printed \cup {"CONFIGURATION FAILED!"}
    /\ pc' = "s_validate"
    /\ UNCHANGED <<envVars, cmState, cameraRef, acquired, config, allocator,
                   nbuf, bufState, nreq, reqBufs, status, slotConnected,
                   camState, pending, completions, cb, calls, loopVars,
                   procVars, procHist, faults, retVars>>

\* int retconfig = camera->configure(config.get()); if (retconfig) ...
StartConfigureFirst ==
    /\ pc = "s_configure1"
    /\ log' = Append(log, "configure")
    /\ \E ok \in {configureAccepts(config), FALSE} :
        IF ok
        THEN /\ applied' = config
             /\ pc' = "s_validate"
             /\ UNCHANGED <<printed, startRet>>
        ELSE /\ printed' = printed \cup {"CONFIGURATION FAILED!"}
             /\ startRet' = EXIT_FAILURE
             /\ pc' = "start_failed"
             /\ UNCHANGED applied
    /\ UNCHANGED <<envVars, cmState, cameraRef, acquired, config, allocator,
                   nbuf, bufState, nreq, reqBufs, status, slotConnected,
                   camState, pending, completions, cb, calls, loopVars,
                   procVars, procHist, faults, goRet, finishRet, loopRet>>

StartValidate ==
    /\ pc = "s_validate"
    /\ config' = validate(config)
    /\ log' = Append(log, "validate")
    /\ pc' = "s_configure2"
    /\ UNCHANGED <<envVars, cmState, cameraRef, acquired, applied, allocator,
                   nbuf, bufState, nreq, reqBufs, status, slotConnected,
                   camState, pending, completions, cb, calls, loopVars,
                   procVars, procHist, faults, printed, retVars>>

\* camera->configure(config.get()); the return value is dropped.
StartConfigure ==
    /\ pc = "s_configure2"
    /\ log' = Append(log, "configure")
    /\ \E ok \in {configureAccepts(config), FALSE} :
        applied' = IF ok THEN config ELSE applied
    /\ pc' = "s_alloc"
    /\ UNCHANGED <<envVars, cmState, cameraRef, acquired, config, allocator,
                   nbuf, bufState, nreq, reqBufs, status, slotConnected,
                   camState, pending, completions, cb, calls, loopVars,
                   procVars, procHist, faults, printed, retVars>>

\* allocator = new FrameBufferAllocator(camera); allocate(cfg.stream())
StartAllocate ==
    /\ pc = "s_alloc"
    /\ allocator' = "Live"
    /\ log' = Append(log, "allocate")
    /\ \E n \in 0..MaxBuffers :
        IF n = 0
        THEN /\ printed' = printed \cup {"Can't allocate buffers"}
             /\ startRet' = EXIT_FAILURE
             /\ pc' = "start_failed"
             /\ UNCHANGED <<nbuf, bufState>>
        ELSE /\ nbuf' = n
             /\ bufState' = [b \in Ids |-> IF b <= n THEN "Allocated" ELSE "None"]
             /\ pc' = "s_request"
             /\ UNCHANGED <<printed, startRet>>
    /\ UNCHANGED <<envVars, cmState, cameraRef, acquired, config, applied,
                   nreq, reqBufs, status, slotConnected, camState, pending,
                   completions, cb, calls, loopVars, procVars, procHist,
                   faults, goRet, finishRet, loopRet>>

\* One iteration of the request loop: createRequest, addBuffer, push_back.
StartCreateRequest ==
    /\ pc = "s_request"
    /\ nreq < nbuf
    /\ log' = Append(log, "createRequest")
    /\ \E outcome \in {"ok", "null", "addBuffer"} :
        IF outcome = "ok"
        THEN /\ nreq' = nreq + 1
             /\ reqBufs' = [reqBufs EXCEPT ![nreq + 1] = {nreq + 1}]
             /\ UNCHANGED <<printed, startRet, pc>>
        ELSE /\ printed' = printed \cup
                    {IF outcome = "null" THEN "Can't create request"
                                         ELSE "Can't set buffer for request"}
             /\ startRet' = EXIT_FAILURE
             /\ pc' = "start_failed"
             /\ UNCHANGED <<nreq, reqBufs>>
    /\ UNCHANGED <<envVars, cmState, cameraRef, acquired, config, applied,
                   allocator, nbuf, bufState, status, slotConnected, camState,
                   pending, completions, cb, calls, loopVars, procVars,
                   procHist, faults, goRet, finishRet, loopRet>>

\* Variant of StartConnect: the slot is connected only after camera->start().
StartConnectAfterStart ==
    /\ pc = "s_request"
    /\ nreq = nbuf
    /\ camState' = "Running"
    /\ slotConnected' = TRUE
    /\ log' = log \o <<"start", "connect">>
    /\ pc' = "go_queue"
    /\ startRet' = EXIT_SUCCESS
    /\ UNCHANGED <<envVars, cmState, cameraRef, acquired, config, applied,
                   allocator, nbuf, bufState, nreq, reqBufs, status, pending,
                   completions, cb, calls, loopVars, procVars, procHist,
                   faults, printed, goRet, finishRet, loopRet>>

\* camera->requestCompleted.connect(requestComplete)
StartConnect ==
    /\ pc = "s_request"
    /\ nreq = nbuf
    /\ slotConnected' = TRUE
    /\ log' = Append(log, "connect")
    /\ pc' = "s_camstart"
    /\ UNCHANGED <<envVars, cmState, cameraRef, acquired, config, applied,
                   allocator, nbuf, bufState, nreq, reqBufs, status, camState,
                   pending, completions, cb, calls, loopVars, procVars,
                   procHist, faults, printed, retVars>>

\* camera->start(); return EXIT_SUCCESS;
StartCamera ==
    /\ pc = "s_camstart"
    /\ camState' = "Running"
    /\ log' = Append(log, "start")
    /\ startRet' = EXIT_SUCCESS
    /\ pc' = "go_queue"
    /\ UNCHANGED <<envVars, cmState, cameraRef, acquired, config, applied,
                   allocator, nbuf, bufState, nreq, reqBufs, status,
                   slotConnected, pending, completions, cb, calls, loopVars,
                   procVars, procHist, faults, printed, goRet, finishRet,
                   loopRet>>

\* ---------------------------------------------------------------- go()
\* Number of requests go() has queued so far in its for loop.
goQueued == Len(SelectSeq(log, LAMBDA op : op = "queueRequest"))

GoQueue ==
    /\ pc = "go_queue"
    /\ goQueued < nreq
    /\ queueRequest(goQueued + 1)
    /\ UNCHANGED <<pc, envVars, camVars, status, camState, completions, cb,
                   calls, loopVars, procVars, procHist, printed, retVars>>

\* Variant of GoTimeout: loop.exec() is entered without arming the timeout.
GoTimeoutMissing ==
    /\ pc = "go_queue"
    /\ goQueued = nreq
    /\ pc' = "go_exec_enter"
    /\ UNCHANGED <<envVars, camVars, status, camState, pending, completions,
                   cb, calls, loopVars, procVars, procHist, faults, log,
                   printed, retVars>>

\* loop.timeout(TIMEOUT_SEC)
GoTimeout ==
    /\ pc = "go_queue"
    /\ goQueued = nreq
    /\ timerArmed' = TRUE
    /\ elapsed' = 0
    /\ pc' = "go_exec_enter"
    /\ UNCHANGED <<envVars, camVars, status, camState, pending, completions,
                   cb, calls, exitFlag, loopRunning, procVars, procHist,
                   faults, log, printed, retVars>>

\* int ret = loop.exec(): the loop starts dispatching on this thread.
GoExec ==
    /\ pc = "go_exec_enter"
    /\ loopRunning' = TRUE
    /\ pc' = "go_exec"
    /\ UNCHANGED <<envVars, camVars, status, camState, pending, completions,
                   cb, calls, timerArmed, elapsed, exitFlag, procVars,
                   procHist, faults, log, printed, retVars>>

\* Variant of GoExecReturn: the loop is left running on another thread
\* (aThread) and go() returns at once.
GoExecReturnDetached ==
    /\ pc = "go_exec"
    /\ \E code \in ExitCodes : loopRet' = code
    /\ goRet' = EXIT_SUCCESS
    /\ pc' = "f_stop"
    /\ UNCHANGED <<envVars, camVars, status, camState, pending, completions,
                   cb, calls, loopVars, procVars, procHist, faults, log,
                   printed, startRet, finishRet>>

\* loop.exec() returns once the loop was told to exit; go() prints the exit
\* status and returns EXIT_SUCCESS.
GoExecReturn ==
    /\ pc = "go_exec"
    /\ exitFlag
    /\ processing = NoRequest
    /\ loopRunning' = FALSE
    /\ \E code \in ExitCodes : loopRet' = code
    /\ goRet' = EXIT_SUCCESS
    /\ pc' = "f_stop"
    /\ UNCHANGED <<envVars, camVars, status, camState, pending, completions,
                   cb, calls, timerArmed, elapsed, exitFlag, procVars,
                   procHist, faults, log, printed, startRet, finishRet>>

\* One second passes on the armed timer; at TIMEOUT_SEC the loop is told to exit.
Tick ==
    /\ timerArmed
    /\ elapsed < TIMEOUT_SEC
    /\ elapsed' = elapsed + 1
    /\ exitFlag' = (elapsed + 1 = TIMEOUT_SEC)
    /\ UNCHANGED <<pc, envVars, camVars, status, camState, pending,
                   completions, cb, calls, timerArmed, loopRunning, procVars,
                   procHist, faults, log, printed, retVars>>

\* The running loop takes the next deferred call: processRequest(request).
Dispatch ==
    /\ loopRunning
    /\ ~exitFlag
    /\ processing = NoRequest
    /\ calls # <<>>
    /\ processing' = Head(calls)
    /\ calls' = Tail(calls)
    /\ stage' = "buffers"
    /\ procCount' = [procCount EXCEPT ![Head(calls)] = @ + 1]
    /\ UNCHANGED <<pc, envVars, camVars, status, camState, pending,
                   completions, cb, loopVars, written, requeueCount, procHist,
                   faults, log, printed, retVars>>

\* processRequest, the loop over request->buffers(): print the metadata, map
\* the buffer, write the image.
ProcessBuffers ==
    /\ processing # NoRequest
    /\ stage = "buffers"
    /\ written' = [written EXCEPT ![processing] = @ + Cardinality(reqBufs[processing])]
    /\ procHist' = procHist \cup
            {[req |-> processing, thread |-> "main",
              status |-> status[processing], step |-> "imwrite"]}
    /\ faults' = IF \E b \in reqBufs[processing] : bufState[b] = "Freed"
                 THEN faults \cup {"freed buffer"} ELSE faults
    /\ stage' = "requeue"
    /\ UNCHANGED <<pc, envVars, camVars, status, camState, pending,
                   completions, cb, calls, loopVars, processing, procCount,
                   requeueCount, log, printed, retVars>>

\* Variant of ProcessRequeue: the request is queued to the camera twice.
ProcessRequeueTwice ==
    /\ processing # NoRequest
    /\ stage = "requeue"
    /\ procHist' = procHist \cup
            {[req |-> processing, thread |-> "main",
              status |-> status[processing], step |-> "queueRequest"]}
    /\ reuse(processing)
    /\ log' = log \o <<"queueRequest", "queueRequest">>
    /\ pending' = [pending EXCEPT ![processing] = @ + 2]
    /\ faults' = faults
    /\ requeueCount' = [requeueCount EXCEPT ![processing] = @ + 2]
    /\ processing' = NoRequest
    /\ stage' = "idle"
    /\ UNCHANGED <<pc, envVars, cmState, cameraRef, acquired, config, applied,
                   allocator, nbuf, bufState, nreq, slotConnected, camState,
                   completions, cb, calls, loopVars, procCount, written,
                   printed, retVars>>

\* processRequest, the tail: request->reuse(ReuseBuffers); camera->queueRequest(request)
ProcessRequeue ==
    /\ processing # NoRequest
    /\ stage = "requeue"
    /\ procHist' = procHist \cup
            {[req |-> processing, thread |-> "main",
              status |-> status[processing], step |-> "queueRequest"]}
    /\ reuse(processing)
    /\ queueRequest(processing)
    /\ requeueCount' = [requeueCount EXCEPT ![processing] = @ + 1]
    /\ processing' = NoRequest
    /\ stage' = "idle"
    /\ UNCHANGED <<pc, envVars, cmState, cameraRef, acquired, config, applied,
                   allocator, nbuf, bufState, nreq, slotConnected, camState,
                   completions, cb, calls, loopVars, procCount, written,
                   printed, retVars>>

\* ------------------------------------------------- camera manager thread
\* The running camera completes a queued request and emits requestCompleted.
CameraComplete ==
    /\ camState = "Running"
    /\ slotConnected
    /\ cb = NoRequest
    /\ completions < MaxCompletions
    /\ \E r \in 1..nreq : \E st \in {RequestComplete, RequestCancelled} :
        /\ pending[r] > 0
        /\ pending' = [pending EXCEPT ![r] = @ - 1]
        /\ status' = [status EXCEPT ![r] = st]
        /\ cb' = r
    /\ completions' = completions + 1
    /\ UNCHANGED <<pc, envVars, camVars, camState, calls, loopVars, procVars, procHist,
                   faults, log, printed, retVars>>

\* The stopping camera cancels a request still queued to it.
CameraCancel ==
    /\ camState = "Stopping"
    /\ slotConnected
    /\ cb = NoRequest
    /\ \E r \in 1..nreq :
        /\ pending[r] > 0
        /\ pending' = [pending EXCEPT ![r] = 0]
        /\ status' = [status EXCEPT ![r] = RequestCancelled]
        /\ cb' = r
    /\ UNCHANGED <<pc, envVars, camVars, camState, completions, calls, loopVars,
                   procVars, procHist, faults, log, printed, retVars>>

\* Variant of requestComplete: the status check is missing.
requestCompleteUnchecked(r) ==
    /\ callLater(r)
    /\ UNCHANGED <<status, reqBufs, pending, faults, log, procCount, written,
                   requeueCount, procHist>>

\* Variant of requestComplete: processRequest(request) is called in the slot,
\* on the camera manager's thread, instead of being deferred to the loop.
requestCompleteDirect(r) ==
    IF status[r] = RequestCancelled
    THEN UNCHANGED <<calls, status, reqBufs, pending, faults, log, procCount,
                     written, requeueCount, procHist>>
    ELSE /\ procCount' = [procCount EXCEPT ![r] = @ + 1]
         /\ written' = [written EXCEPT ![r] = @ + Cardinality(reqBufs[r])]
         /\ procHist' = procHist \cup
                {[req |-> r, thread |-> "cm", status |-> status[r], step |-> s] :
                    s \in {"imwrite", "queueRequest"}}
         /\ reuse(r)
         /\ queueRequest(r)
         /\ requeueCount' = [requeueCount EXCEPT ![r] = @ + 1]
         /\ UNCHANGED calls

\* void SimpleCam::requestComplete(Request *request)
requestComplete(r) ==
    /\ IF status[r] = RequestCancelled
       THEN UNCHANGED calls
       ELSE callLater(r)
    /\ UNCHANGED <<status, reqBufs, pending, faults, log, procCount, written,
                   requeueCount, procHist>>

\* The slot runs on the camera manager's thread.
Slot ==
    /\ cb # NoRequest
    /\ requestComplete(cb)
    /\ cb' = NoRequest
    /\ UNCHANGED <<pc, envVars, cmState, cameraRef, acquired, config, applied,
                   allocator, nbuf, bufState, nreq, slotConnected, camState,
                   completions, loopVars, processing, stage, printed, retVars>>

\* ------------------------------------------------------------ finish()
\* camera->stop() is called ...
FinishStop ==
    /\ pc = "f_stop"
    /\ camState' = "Stopping"
    /\ log' = Append(log, "stop")
    /\ pc' = "f_stopping"
    /\ UNCHANGED <<envVars, camVars, status, pending, completions, cb, calls,
                   loopVars, procVars, procHist, faults, printed, retVars>>

\* ... and returns once every queued request was cancelled and reported.
FinishStopReturn ==
    /\ pc = "f_stopping"
    /\ cb = NoRequest
    /\ \A r \in 1..nreq : pending[r] = 0
    /\ camState' = "Stopped"
    /\ pc' = "f_free"
    /\ UNCHANGED <<envVars, camVars, status, pending, completions, cb, calls,
                   loopVars, procVars, procHist, faults, log, printed, retVars>>

\* allocator->free(stream)
FinishFree ==
    /\ pc = "f_free"
    /\ bufState' = [b \in Ids |-> IF bufState[b] = "Allocated" THEN "Freed" ELSE bufState[b]]
    /\ log' = Append(log, "free")
    /\ pc' = "f_delete"
    /\ UNCHANGED <<envVars, cmState, cameraRef, acquired, config, applied,
                   allocator, nbuf, nreq, reqBufs, status, slotConnected,
                   camState, pending, completions, cb, calls, loopVars,
                   procVars, procHist, faults, printed, retVars>>

\* delete allocator
FinishDelete ==
    /\ pc = "f_delete"
    /\ allocator' = "Deleted"
    /\ log' = Append(log, "delete allocator")
    /\ pc' = "f_release"
    /\ UNCHANGED <<envVars, cmState, cameraRef, acquired, config, applied,
                   nbuf, bufState, nreq, reqBufs, status, slotConnected,
                   camState, pending, completions, cb, calls, loopVars,
                   procVars, procHist, faults, printed, retVars>>

\* camera->release()
FinishRelease ==
    /\ pc = "f_release"
    /\ acquired' = FALSE
    /\ log' = Append(log, "release")
    /\ pc' = "f_reset"
    /\ UNCHANGED <<envVars, cmState, cameraRef, config, applied, allocator,
                   nbuf, bufState, nreq, reqBufs, status, slotConnected,
                   camState, pending, completions, cb, calls, loopVars,
                   procVars, procHist, faults, printed, retVars>>

\* camera.reset()
FinishReset ==
    /\ pc = "f_reset"
    /\ cameraRef' = FALSE
    /\ log' = Append(log, "reset")
    /\ pc' = "f_cmstop"
    /\ UNCHANGED <<envVars, cmState, acquired, config, applied, allocator,
                   nbuf, bufState, nreq, reqBufs, status, slotConnected,
                   camState, pending, completions, cb, calls, loopVars,
                   procVars, procHist, faults, printed, retVars>>

\* cm->stop(); return EXIT_SUCCESS;
FinishManagerStop ==
    /\ pc = "f_cmstop"
    /\ cmState' = "Stopped"
    /\ log' = Append(log, "cm.stop")
    /\ finishRet' = EXIT_SUCCESS
    /\ pc' = "done"
    /\ UNCHANGED <<envVars, cameraRef, acquired, config, applied, allocator,
                   nbuf, bufState, nreq, reqBufs, status, slotConnected,
                   camState, pending, completions, cb, calls, loopVars,
                   procVars, procHist, faults, printed, startRet, goRet,
                   loopRet>>

\* --------------------------------------------------------- specification
Next ==
    \/ StartManager
    \/ StartNoCameras
    \/ StartAcquire
    \/ StartGenerateConfiguration
    \/ StartConfigureFirst
    \/ StartValidate
    \/ StartConfigure
    \/ StartAllocate
    \/ StartCreateRequest
    \/ StartConnect
    \/ StartCamera
    \/ GoQueue
    \/ GoTimeout
    \/ GoExec
    \/ GoExecReturn
    \/ Tick
    \/ Dispatch
    \/ ProcessBuffers
    \/ ProcessRequeue
    \/ CameraComplete
    \/ CameraCancel
    \/ Slot
    \/ FinishStop
    \/ FinishStopReturn
    \/ FinishFree
    \/ FinishDelete
    \/ FinishRelease
    \/ FinishReset
    \/ FinishManagerStop

Spec == Init /\ [][Next]_vars

\* The application thread: start(), go() with the calls its loop dispatches,
\* finish().
MainStep ==
    \/ StartManager \/ StartNoCameras \/ StartAcquire
    \/ StartGenerateConfiguration \/ StartConfigureFirst \/ StartValidate
    \/ StartConfigure \/ StartAllocate \/ StartCreateRequest \/ StartConnect
    \/ StartCamera \/ GoQueue \/ GoTimeout \/ GoExec \/ GoExecReturn
    \/ Dispatch \/ ProcessBuffers \/ ProcessRequeue
    \/ FinishStop \/ FinishStopReturn \/ FinishFree \/ FinishDelete
    \/ FinishRelease \/ FinishReset \/ FinishManagerStop

\* The application thread keeps running, time passes on an armed timer, and
\* the camera manager's thread delivers what it has to deliver.
FairSpec ==
    /\ Spec
    /\ WF_vars(MainStep)
    /\ WF_vars(Tick)
    /\ WF_vars(Slot)
    /\ WF_vars(CameraCancel)

\* ------------------------------------------------------------ properties
\* Lifecycle stage of each camera API call the application makes.
Rank(op) ==
    CASE op = "cm.start" -> 0
      [] op = "acquire" -> 1
      [] op \in {"generateConfiguration", "configure", "validate"} -> 2
      [] op = "allocate" -> 3
      [] op = "createRequest" -> 4
      [] op = "connect" -> 5
      [] op = "start" -> 6
      [] op = "queueRequest" -> 7
      [] op \in {"stop", "free", "delete allocator"} -> 8
      [] op \in {"release", "reset"} -> 9
      [] op = "cm.stop" -> 10

Logged(op) == \E i \in DOMAIN log : log[i] = op

Occurrences(q, x) == Len(SelectSeq(q, LAMBDA y : y = x))

\* C1: once start() has returned EXIT_SUCCESS the camera API calls were made
\* in the lifecycle order acquire, configure, allocate, create requests,
\* connect the slot, start, queue, release: the log never steps back to an
\* earlier stage, every stage up to start was gone through, no request sits
\* in a camera that was not started, and after finish() the queueing and the
\* release both happened, in that order.
C1_LifecycleOrder ==
    /\ \A i, j \in DOMAIN log : i < j => Rank(log[i]) <= Rank(log[j])
    /\ startRet = EXIT_SUCCESS =>
          \A op \in {"acquire", "configure", "allocate", "createRequest",
                     "connect", "start"} : Logged(op)
    /\ Logged("start") => Logged("connect")
    /\ \A r \in Ids : pending[r] > 0 => camState \in {"Running", "Stopping"}
    /\ pc = "done" => Logged("queueRequest") /\ Logged("release")

C1_Witness ==
    /\ pc = "done"
    /\ startRet = EXIT_SUCCESS
    /\ Occurrences(log, "queueRequest") > nreq

\* C2: the slot requestComplete never runs processRequest: everything
\* processRequest did was done on the application thread, and only while
\* go() is inside loop.exec(); a slot invocation changes nothing but the
\* loop's deferred calls, to which it adds the request when the request is
\* not cancelled.
C2_ProcessingOnLoopThread ==
    /\ [](/\ \A h \in procHist : h.thread = "main"
          /\ processing # NoRequest => pc = "go_exec" /\ loopRunning)
    /\ [][(cb # NoRequest /\ cb' = NoRequest) =>
            /\ calls' = IF status[cb] = RequestCancelled
                        THEN calls ELSE Append(calls, cb)
            /\ UNCHANGED <<procHist, procCount, written, requeueCount,
                           pending, log, status>>]_vars

C2_Witness ==
    /\ \E h \in procHist : h.step = "queueRequest" /\ h.thread = "main"
    /\ calls # <<>>
    /\ cb # NoRequest

\* C3: a request that completed with RequestCancelled is never posted to the
\* event loop, never processed and never requeued by processRequest.
C3_CancelledNeverProcessed ==
    /\ \A i \in DOMAIN calls : status[calls[i]] = RequestComplete
    /\ processing # NoRequest => status[processing] = RequestComplete
    /\ \A h \in procHist : h.status = RequestComplete

C3_Witness ==
    /\ camState = "Running"
    /\ cb = NoRequest
    /\ \E r \in 1..nreq : status[r] = RequestCancelled
    /\ procHist # {}

\* What finish() logs, in order.
FinishOrder == <<"stop", "free", "delete allocator", "release", "reset", "cm.stop">>

\* C4: after finish() returned, the teardown calls were made in the order
\* stop, free, delete allocator, release, reset, cm stop, and nothing is
\* held: camera stopped and released, buffers freed, manager stopped, and no
\* remaining request refers to a freed buffer.
C4_FinishLeavesNothing ==
    pc = "done" =>
        /\ SubSeq(log, Len(log) - 5, Len(log)) = FinishOrder
        /\ camState = "Stopped"
        /\ ~acquired
        /\ ~cameraRef
        /\ allocator = "Deleted"
        /\ \A b \in Ids : bufState[b] # "Allocated"
        /\ cmState = "Stopped"
        /\ \A r \in 1..nreq : \A b \in reqBufs[r] : bufState[b] # "Freed"

\* C5: with no cameras start() prints the failure message, stops the camera
\* manager and returns EXIT_FAILURE, having acquired, configured, allocated,
\* created and started nothing.
C5_NoCameras ==
    cameras = 0 =>
        /\ pc \in {"start", "s_check", "start_failed"}
        /\ ~acquired /\ ~cameraRef
        /\ config = "none" /\ applied = "none"
        /\ allocator = "None" /\ nbuf = 0 /\ nreq = 0
        /\ camState = "Idle"
        /\ pc = "start_failed" =>
              /\ printed = {"No cameras were identified on the system."}
              /\ cmState = "Stopped"
              /\ startRet = EXIT_FAILURE
              /\ log = <<"cm.start", "cm.stop">>

C5_Witness == cameras = 0 /\ pc = "start_failed"

\* C6: every camera->configure() call comes after config->validate(), and
\* the configuration applied to the camera is a validated one.
C6_ValidateBeforeConfigure ==
    /\ \A i \in DOMAIN log :
          log[i] = "configure" => \E j \in 1..(i - 1) : log[j] = "validate"
    /\ applied \in {"none", "validated", "adjusted"}

RECURSIVE SumTo(_, _)
SumTo(f, n) == IF n = 0 THEN 0 ELSE f[n] + SumTo(f, n - 1)

\* Where a request is: in the camera, in a slot invocation, among the
\* deferred calls, or in processRequest.
Places(r) ==
    pending[r] + Occurrences(calls, r)
        + (IF cb = r THEN 1 ELSE 0) + (IF processing = r THEN 1 ELSE 0)

\* C7: each processRequest run requeues its request exactly once, after the
\* request's buffers were handled and with the same buffers; so a request is
\* never queued twice without a completion in between.
C7_RequeueOnce ==
    /\ \A r \in Ids :
        /\ pending[r] <= 1
        /\ Places(r) <= 1
        /\ requeueCount[r] = procCount[r] - (IF processing = r THEN 1 ELSE 0)
        /\ written[r] = procCount[r]
                - (IF processing = r /\ stage = "buffers" THEN 1 ELSE 0)
        /\ r <= nreq => reqBufs[r] = {r}
        /\ pending[r] > 0 => status[r] = RequestPending
    /\ pc \notin {"go_queue"} /\ Logged("queueRequest") =>
          Occurrences(log, "queueRequest") = nreq + SumTo(requeueCount, MaxBuffers)

C7_Witness ==
    \E r \in 1..nreq : requeueCount[r] >= 2 /\ pending[r] = 1

C9_FailureLeavesNothing ==
    pc = "start_failed" =>
        /\ startRet = EXIT_FAILURE
        /\ ~acquired
        /\ allocator # "Live"
        /\ \A b \in Ids : bufState[b] # "Allocated"
        /\ cmState # "Running"

\* C9 as the code has it: a failure message is always followed by the return
\* of EXIT_FAILURE, with capture never started; only the no-cameras path
\* stops the camera manager and holds nothing.  On the other failure paths
\* start() returns at once: the camera stays acquired and the camera manager
\* running, and from the allocation on the allocator and the buffers it
\* handed out stay allocated, with the requests created so far.
C9_FailureReturnsAtOnce ==
    /\ printed # {} => pc = "start_failed"
    /\ pc = "start_failed" =>
        /\ startRet = EXIT_FAILURE
        /\ Cardinality(printed) = 1
        /\ camState = "Idle" /\ ~slotConnected
        /\ \A r \in Ids : pending[r] = 0
        /\ IF cameras = 0
           THEN ~acquired /\ ~cameraRef /\ cmState = "Stopped" /\ allocator = "None"
           ELSE /\ acquired /\ cameraRef /\ cmState = "Running"
                /\ allocator = (IF Logged("allocate") THEN "Live" ELSE "None")
                /\ \A b \in Ids : bufState[b] = (IF b <= nbuf THEN "Allocated" ELSE "None")
                /\ \A r \in Ids : reqBufs[r] = (IF r <= nreq THEN {r} ELSE {})

C9_Witness ==
    /\ pc = "start_failed"
    /\ printed = {"Can't set buffer for request"}
    /\ nreq >= 1

\* C10: once finish() has called camera->stop() no request is queued to the
\* camera: processRequest does not run, the loop does not dispatch, the log
\* shows no queueRequest after stop, nothing is left in the stopped camera,
\* and no freed buffer or reset camera pointer was ever used.
C10_NoQueueAfterStop ==
    /\ faults = {}
    /\ \A i, j \in DOMAIN log :
          (i < j /\ log[i] = "stop") => log[j] # "queueRequest"
    /\ camState \in {"Stopping", "Stopped"} =>
          /\ processing = NoRequest
          /\ ~loopRunning
    /\ camState = "Stopped" => \A r \in Ids : pending[r] = 0

C10_Witness ==
    /\ camState = "Stopping"
    /\ cb # NoRequest
    /\ status[cb] = RequestCancelled
    /\ calls # <<>>

====
